---- MODULE Spec2Model ----
(***************************************************************************)
(* State-machine model of the IncrementalReader component                  *)
(* (src/app/page.tsx): the tokenizer inside processText, the reveal        *)
(* controller (processText / handleKeyDown / resetReader) and the          *)
(* presentation flags, with the two reveal surfaces (inline panel and      *)
(* fullscreen overlay) that share one handleKeyDown.                       *)
(*                                                                         *)
(* A JavaScript string is modelled as a sequence of one-character strings, *)
(* so "" is << >> and "a\nb" is <<"a", "\n", "b">>.  Array indices are     *)
(* 0-based in the source and 1-based here: lines[i] of the source is       *)
(* lines[i + 1] of the model.                                              *)
(***************************************************************************)
EXTENDS Integers, Sequences, FiniteSets, TLC

VARIABLES
    inputText,         \* useState("")       text of the input box
    displayedText,     \* useState("")       Revealed Text
    currentLine,       \* useState("")       Current Line ("" = absent)
    lines,             \* useState([])       Line Sequence
    currentLineIndex,  \* useState(0)        Reveal Position
    activeTab,         \* useState("input")
    isRTL,             \* useState(true)
    isMarkdown,        \* useState(true)
    isFullscreen,      \* useState(false)
    isFocusMode,       \* useState(true)
    scrollTimers,      \* pending setTimeout callbacks of the auto-scroll effect
    lastEvent,         \* history: the event handled last
    advanceCount       \* history: reveal events since the last successful process

vars == <<inputText, displayedText, currentLine, lines, currentLineIndex,
          activeTab, isRTL, isMarkdown, isFullscreen, isFocusMode,
          scrollTimers, lastEvent, advanceCount>>

reveal == <<displayedText, currentLine, lines, currentLineIndex>>
flags  == <<isRTL, isMarkdown, isFocusMode>>

-----------------------------------------------------------------------------
(* Bounds of the model *)

\* longest raw input of the tokenizer specification SpecTok
MaxLen == 5
\* most auto-scroll timeouts pending at once
MaxTimers == 2
\* advanceCount saturates here: the value MaxAdvance stands for "MaxAdvance or more"
MaxAdvance == 4

-----------------------------------------------------------------------------
(* Characters and strings *)

NL == "\n"
SP == " "
Alphabet == {"a", "b", SP, NL}
\* the characters String.prototype.trim strips, within Alphabet
Whitespace == {SP, NL}

Min(a, b) == IF a < b THEN a ELSE b

\* all strings of exactly n characters / of at most n characters
StringsOfLen(n) == [1..n -> Alphabet]
StringsUpTo(n) == UNION {StringsOfLen(k) : k \in 0..n}

\* texts the user puts into the input box in the main specification
SampleTexts ==
    { << >>,
      <<SP, NL, SP>>,
      <<"a">>,
      <<"a", NL, "b">>,
      <<"a", NL, "a">>,
      <<"a", NL, NL, "b", SP, NL, SP>>,
      <<SP, "a", "b", NL, "a", NL, "b">> }

-----------------------------------------------------------------------------
(* The tokenizer: inputText.split("\n").map(trim).filter(nonempty) *)

RECURSIVE TrimStart(_)
TrimStart(s) ==
    IF s # << >> /\ Head(s) \in Whitespace THEN TrimStart(Tail(s)) ELSE s

RECURSIVE TrimEnd(_)
TrimEnd(s) ==
    IF s # << >> /\ s[Len(s)] \in Whitespace
    THEN TrimEnd(SubSeq(s, 1, Len(s) - 1))
    ELSE s

\* String.prototype.trim
Trim(s) == TrimEnd(TrimStart(s))

\* s.split("\n"): always at least one segment, "" gives [""]
RECURSIVE Split(_)
Split(s) ==
    IF \E i \in 1..Len(s) : s[i] = NL
    THEN LET i == CHOOSE i \in 1..Len(s) :
                      s[i] = NL /\ \A j \in 1..(i - 1) : s[j] # NL
         IN  <<SubSeq(s, 1, i - 1)>> \o Split(SubSeq(s, i + 1, Len(s)))
    ELSE <<s>>

\* .map((line) => line.trim())
MapTrim(segs) == [i \in 1..Len(segs) |-> Trim(segs[i])]

NonEmptyLine(line) == Len(line) > 0

\* mutant: nothing is filtered out
FilterNonEmpty_KeepAll(segs) == segs

\* .filter((line) => line.length > 0)
FilterNonEmpty(segs) == SelectSeq(segs, NonEmptyLine)

textLines(text) == FilterNonEmpty(MapTrim(Split(text)))

\* mutant: the text is tested without trimming it
isBlankInput_NoTrim(text) == text = << >>

\* !inputText.trim()
isBlankInput(text) == Trim(text) = << >>

\* arr[0] || ""
firstLineOrEmpty(arr) == IF Len(arr) > 0 THEN arr[1] ELSE << >>

-----------------------------------------------------------------------------
(* Initial state: the useState initial values *)

\* op: the handler; target: where a key press landed; arg: the key pressed,
\* or for processText the situation it was pressed in
Event(op, target, arg) == [op |-> op, target |-> target, arg |-> arg]

Init ==
    /\ inputText = << >>
    /\ displayedText = << >>
    /\ currentLine = << >>
    /\ lines = << >>
    /\ currentLineIndex = 0
    /\ activeTab = "input"
    /\ isRTL = TRUE
    /\ isMarkdown = TRUE
    /\ isFullscreen = FALSE
    /\ isFocusMode = TRUE
    /\ scrollTimers = 0
    /\ lastEvent = Event("mount", "none", "none")
    /\ advanceCount = -1

-----------------------------------------------------------------------------
(* What is mounted *)

\* the inline reader panel and its Reset / Fullscreen buttons
inlineMounted == activeTab = "reader" /\ Len(lines) > 0

\* the fullscreen overlay and its Reset / Close buttons
overlayMounted == isFullscreen /\ Len(lines) > 0

\* the fallback shown in the reader tab instead of the inline panel
fallbackMounted == activeTab = "reader" /\ ~(Len(lines) > 0)

\* mutant: the surfaces are rendered without the lines.length > 0 tests
surfaceMounted_NoLengthTest(target) ==
    \/ target = "inline" /\ activeTab = "reader"
    \/ target = "fullscreen" /\ isFullscreen

surfaceMounted(target) ==
    \/ target = "inline" /\ inlineMounted
    \/ target = "fullscreen" /\ overlayMounted

-----------------------------------------------------------------------------
(* The auto-scroll effect, run after the render that follows an event: its   *)
(* dependencies are [currentLine, isFullscreen], and it sets a timeout only  *)
(* when currentLine is non-empty.  An event that would set a timeout waits   *)
(* while MaxTimers timeouts are pending.                                     *)

autoScrollEffect ==
    IF (currentLine' # currentLine \/ isFullscreen' # isFullscreen)
       /\ currentLine' # << >>
    THEN scrollTimers < MaxTimers /\ scrollTimers' = scrollTimers + 1
    ELSE scrollTimers' = scrollTimers

\* the timeout callback: it only scrolls the viewport
scrollTimeout ==
    /\ scrollTimers > 0
    /\ scrollTimers' = scrollTimers - 1
    /\ lastEvent' = Event("scrollTimeout", "none", "none")
    /\ UNCHANGED <<inputText, reveal, activeTab, flags, isFullscreen, advanceCount>>

-----------------------------------------------------------------------------
(* Input tab: text box, switches, Process button *)

\* mutant: the text is tokenized again on every edit
setInputText_Live(text) ==
    /\ activeTab = "input"
    /\ text # inputText
    /\ inputText' = text
    /\ lines' = textLines(text)
    /\ lastEvent' = Event("setInputText", "none", "none")
    /\ UNCHANGED <<displayedText, currentLine, currentLineIndex, activeTab,
                   flags, isFullscreen, advanceCount>>
    /\ autoScrollEffect

setInputText(text) ==
    /\ activeTab = "input"
    /\ text # inputText
    /\ inputText' = text
    /\ lastEvent' = Event("setInputText", "none", "none")
    /\ UNCHANGED <<reveal, activeTab, flags, isFullscreen, advanceCount>>
    /\ autoScrollEffect

setIsRTL ==
    /\ activeTab = "input"
    /\ isRTL' = ~isRTL
    /\ lastEvent' = Event("setIsRTL", "none", "none")
    /\ UNCHANGED <<inputText, reveal, activeTab, isMarkdown, isFocusMode,
                   isFullscreen, advanceCount>>
    /\ autoScrollEffect

setIsMarkdown ==
    /\ activeTab = "input"
    /\ isMarkdown' = ~isMarkdown
    /\ lastEvent' = Event("setIsMarkdown", "none", "none")
    /\ UNCHANGED <<inputText, reveal, activeTab, isRTL, isFocusMode,
                   isFullscreen, advanceCount>>
    /\ autoScrollEffect

setIsFocusMode ==
    /\ activeTab = "input"
    /\ isFocusMode' = ~isFocusMode
    /\ lastEvent' = Event("setIsFocusMode", "none", "none")
    /\ UNCHANGED <<inputText, reveal, activeTab, isRTL, isMarkdown,
                   isFullscreen, advanceCount>>
    /\ autoScrollEffect

\* mutant: the position survives a new text
initialize_KeepIndex(newLines) ==
    /\ lines' = newLines
    /\ currentLineIndex' = currentLineIndex
    /\ displayedText' = << >>
    /\ currentLine' = firstLineOrEmpty(newLines)

\* mutant: the new lines are appended to the old ones
initialize_Merge(newLines) ==
    /\ lines' = lines \o newLines
    /\ currentLineIndex' = 0
    /\ displayedText' = << >>
    /\ currentLine' = firstLineOrEmpty(lines \o newLines)

\* the four reveal-state setters of processText
initialize(newLines) ==
    /\ lines' = newLines
    /\ currentLineIndex' = 0
    /\ displayedText' = << >>
    /\ currentLine' = firstLineOrEmpty(newLines)

\* mutant: the reader tab is opened without entering fullscreen mode
processText_NoFullscreen ==
    /\ activeTab = "input"
    /\ lastEvent' = Event("processText", "none",
                          IF isBlankInput(inputText) THEN "blank"
                          ELSE IF lines = << >> THEN "first"
                          ELSE IF currentLineIndex > 0 THEN "midread"
                          ELSE "again")
    /\ IF isBlankInput(inputText)
       THEN UNCHANGED <<inputText, reveal, activeTab, flags, isFullscreen,
                        advanceCount>>
       ELSE /\ initialize(textLines(inputText))
            /\ activeTab' = "reader"
            /\ advanceCount' = 0
            /\ UNCHANGED <<inputText, flags, isFullscreen>>
    /\ autoScrollEffect

processText ==
    /\ activeTab = "input"
    /\ lastEvent' = Event("processText", "none",
                          IF isBlankInput(inputText) THEN "blank"
                          ELSE IF lines = << >> THEN "first"
                          ELSE IF currentLineIndex > 0 THEN "midread"
                          ELSE "again")
    /\ IF isBlankInput(inputText)
       THEN UNCHANGED <<inputText, reveal, activeTab, flags, isFullscreen,
                        advanceCount>>
       ELSE /\ initialize(textLines(inputText))
            /\ activeTab' = "reader"
            /\ isFullscreen' = TRUE
            /\ advanceCount' = 0
            /\ UNCHANGED <<inputText, flags>>
    /\ autoScrollEffect

-----------------------------------------------------------------------------
(* Tabs *)

setActiveTab(value) ==
    /\ value # activeTab
    /\ activeTab' = value
    /\ lastEvent' = Event("setActiveTab", "none", "none")
    /\ UNCHANGED <<inputText, reveal, flags, isFullscreen, advanceCount>>
    /\ autoScrollEffect

goToInput ==
    /\ fallbackMounted
    /\ activeTab' = "input"
    /\ lastEvent' = Event("goToInput", "none", "none")
    /\ UNCHANGED <<inputText, reveal, flags, isFullscreen, advanceCount>>
    /\ autoScrollEffect

-----------------------------------------------------------------------------
(* Reveal controller *)

\* mutant: the last line is never revealed
canAdvance_StopsEarly(idx, ls) == idx + 1 < Len(ls)

\* mutant: the bound test admits the position just past the end
canAdvance_OffByOne(idx, ls) == idx <= Len(ls)

\* currentLineIndex < lines.length
canAdvance(idx, ls) == idx < Len(ls)

\* mutant: the line break is added even to an empty Revealed Text
appendLine_AlwaysBreak(shown, line) == shown \o <<NL>> \o line

\* displayedText ? displayedText + "\n" + currentLine : currentLine
appendLine(shown, line) ==
    IF shown # << >> THEN shown \o <<NL>> \o line ELSE line

\* mutant: the line at the old index instead of the new one
lineAt_Stale(ls, nextIndex) ==
    IF nextIndex < Len(ls) THEN ls[nextIndex] ELSE << >>

\* nextIndex < lines.length ? lines[nextIndex] : ""
lineAt(ls, nextIndex) ==
    IF nextIndex < Len(ls) THEN ls[nextIndex + 1] ELSE << >>

Keys == {"Tab", SP, "Escape", "a"}
RevealKeys == {"Tab", SP}

\* the state the handler's closure holds
closure ==
    [displayedText |-> displayedText,
     currentLineIndex |-> currentLineIndex,
     currentLine |-> currentLine,
     isFullscreen |-> isFullscreen]

\* mutant: revealing the last line also leaves fullscreen mode
advance_ExitAtEnd(st) ==
    IF canAdvance(st.currentLineIndex, lines)
    THEN [displayedText |-> appendLine(st.displayedText, st.currentLine),
          currentLineIndex |-> st.currentLineIndex + 1,
          currentLine |-> lineAt(lines, st.currentLineIndex + 1),
          isFullscreen |-> st.isFullscreen /\ st.currentLineIndex + 1 < Len(lines)]
    ELSE st

\* the Tab / Space branch of handleKeyDown, on the state st
advance(st) ==
    IF canAdvance(st.currentLineIndex, lines)
    THEN [displayedText |-> appendLine(st.displayedText, st.currentLine),
          currentLineIndex |-> st.currentLineIndex + 1,
          currentLine |-> lineAt(lines, st.currentLineIndex + 1),
          isFullscreen |-> st.isFullscreen]
    ELSE st

\* mutant: with both surfaces mounted the press is handled once per surface
handleKeyDown_PerSurface(key) ==
    IF activeTab # "reader" /\ ~isFullscreen THEN closure
    ELSE IF key \in RevealKeys
    THEN IF inlineMounted /\ overlayMounted
         THEN advance(advance(closure))
         ELSE advance(closure)
    ELSE IF key = "Escape" THEN [closure EXCEPT !.isFullscreen = FALSE]
    ELSE closure

\* mutant: every key but Escape reveals a line
handleKeyDown_AnyKey(key) ==
    IF activeTab # "reader" /\ ~isFullscreen THEN closure
    ELSE IF key = "Escape" THEN [closure EXCEPT !.isFullscreen = FALSE]
    ELSE advance(closure)

\* the state handleKeyDown leaves behind, for one key delivered to a surface
handleKeyDown(key) ==
    IF activeTab # "reader" /\ ~isFullscreen THEN closure
    ELSE IF key \in RevealKeys THEN advance(closure)
    ELSE IF key = "Escape" THEN [closure EXCEPT !.isFullscreen = FALSE]
    ELSE closure

\* mutant: the listener flips the flag instead of clearing it
handleDocumentKeyDown_Flip(key, seen, fs) ==
    IF key = "Escape" /\ seen THEN ~fs ELSE fs

\* the document-level listener; seen is the isFullscreen its closure holds
handleDocumentKeyDown(key, seen, fs) ==
    IF key = "Escape" /\ seen THEN FALSE ELSE fs

\* a key press while a reveal surface has focus: the surface's onKeyDown,
\* then the document listener, whose closure holds the value of isFullscreen
\* from before the press or, if the effect was re-run in between, from after it
keyDownOnSurface(target, key) ==
    /\ surfaceMounted(target)
    /\ LET after == handleKeyDown(key)
       IN  /\ displayedText' = after.displayedText
           /\ currentLineIndex' = after.currentLineIndex
           /\ currentLine' = after.currentLine
           /\ \E seen \in {isFullscreen, after.isFullscreen} :
                  isFullscreen' = handleDocumentKeyDown(key, seen, after.isFullscreen)
    /\ advanceCount' =
           IF key \in RevealKeys /\ advanceCount >= 0
           THEN Min(advanceCount + 1, MaxAdvance)
           ELSE advanceCount
    /\ lastEvent' = Event("keydown", target, key)
    /\ UNCHANGED <<inputText, lines, activeTab, flags>>
    /\ autoScrollEffect

\* a key press while focus is anywhere else: only the document listener
keyDownElsewhere(key) ==
    /\ isFullscreen' = handleDocumentKeyDown(key, isFullscreen, isFullscreen)
    /\ lastEvent' = Event("keydown", "document", key)
    /\ UNCHANGED <<inputText, reveal, activeTab, flags, advanceCount>>
    /\ autoScrollEffect

\* mutant: the highlighted line is not recomputed
resetReader_KeepLine ==
    /\ inlineMounted \/ overlayMounted
    /\ displayedText' = << >>
    /\ currentLineIndex' = 0
    /\ currentLine' = currentLine
    /\ advanceCount' = -1
    /\ lastEvent' = Event("resetReader", "none", "none")
    /\ UNCHANGED <<inputText, lines, activeTab, flags, isFullscreen>>
    /\ autoScrollEffect

resetReader ==
    /\ inlineMounted \/ overlayMounted
    /\ displayedText' = << >>
    /\ currentLineIndex' = 0
    /\ currentLine' = firstLineOrEmpty(lines)
    /\ advanceCount' = -1
    /\ lastEvent' = Event("resetReader", "none", "none")
    /\ UNCHANGED <<inputText, lines, activeTab, flags, isFullscreen>>
    /\ autoScrollEffect

\* mutant: the surface that opens starts the reading over
toggleFullscreen_StartsOver ==
    /\ inlineMounted \/ overlayMounted
    /\ isFullscreen' = ~isFullscreen
    /\ displayedText' = << >>
    /\ currentLineIndex' = 0
    /\ currentLine' = firstLineOrEmpty(lines)
    /\ lastEvent' = Event("toggleFullscreen", "none", "none")
    /\ UNCHANGED <<inputText, lines, activeTab, flags, advanceCount>>
    /\ autoScrollEffect

toggleFullscreen ==
    /\ inlineMounted \/ overlayMounted
    /\ isFullscreen' = ~isFullscreen
    /\ lastEvent' = Event("toggleFullscreen", "none", "none")
    /\ UNCHANGED <<inputText, reveal, activeTab, flags, advanceCount>>
    /\ autoScrollEffect

-----------------------------------------------------------------------------
(* Specifications *)

Next ==
    \/ \E text \in SampleTexts : setInputText(text)
    \/ setIsRTL
    \/ setIsMarkdown
    \/ setIsFocusMode
    \/ processText
    \/ \E value \in {"input", "reader"} : setActiveTab(value)
    \/ goToInput
    \/ \E target \in {"inline", "fullscreen"}, key \in Keys :
           keyDownOnSurface(target, key)
    \/ \E key \in Keys : keyDownElsewhere(key)
    \/ resetReader
    \/ toggleFullscreen
    \/ scrollTimeout

Spec == Init /\ [][Next]_vars

\* a Tab or Space press on either reveal surface
revealPress ==
    \E target \in {"inline", "fullscreen"}, key \in RevealKeys :
        keyDownOnSurface(target, key)

\* The same program with fairness: the event loop runs every pending timeout
\* callback, and the reader keeps pressing a reveal key while a reveal surface
\* takes it.
SpecLive ==
    /\ Init /\ [][Next]_vars
    /\ WF_vars(scrollTimeout)
    /\ WF_vars(revealPress)

\* The tokenizer on every raw input of at most MaxLen characters: the text is
\* already in the input box, and Process is pressed.
InitTok ==
    /\ inputText \in StringsUpTo(MaxLen)
    /\ displayedText = << >>
    /\ currentLine = << >>
    /\ lines = << >>
    /\ currentLineIndex = 0
    /\ activeTab = "input"
    /\ isRTL = TRUE
    /\ isMarkdown = TRUE
    /\ isFullscreen = FALSE
    /\ isFocusMode = TRUE
    /\ scrollTimers = 0
    /\ lastEvent = Event("setInputText", "none", "none")
    /\ advanceCount = -1

NextTok == processText

SpecTok == InitTok /\ [][NextTok]_vars

-----------------------------------------------------------------------------
(* Reference definitions used by the properties *)

\* the lines joined by single line breaks
RECURSIVE JoinLines(_)
JoinLines(ls) ==
    IF ls = << >> THEN << >>
    ELSE IF Len(ls) = 1 THEN ls[1]
    ELSE ls[1] \o <<NL>> \o JoinLines(Tail(ls))

\* Line Sequence[position], absent past the end
LineAtPosition(ls, pos) == IF pos < Len(ls) THEN ls[pos + 1] ELSE << >>

PositionInBounds == currentLineIndex \in 0..Len(lines)

\* The tokenizer's contract, stated by positions instead of computed by
\* scanning: the segments between line breaks, each cut down to the span from
\* its first to its last non-blank character, the all-blank ones left out.
BreakPositions(s) == {i \in 1..Len(s) : s[i] = NL}

\* the k-th smallest element of the set of numbers S
KthOf(S, k) == CHOOSE x \in S : Cardinality({y \in S : y < x}) = k - 1

\* the k-th segment, k in 1..(number of line breaks + 1)
Segment(s, k) ==
    LET n  == Cardinality(BreakPositions(s))
        lo == IF k = 1 THEN 0 ELSE KthOf(BreakPositions(s), k - 1)
        hi == IF k = n + 1 THEN Len(s) + 1 ELSE KthOf(BreakPositions(s), k)
    IN  SubSeq(s, lo + 1, hi - 1)

InkPositions(seg) == {i \in 1..Len(seg) : seg[i] \notin Whitespace}

Stripped(seg) ==
    LET ink == InkPositions(seg)
    IN  SubSeq(seg, KthOf(ink, 1), KthOf(ink, Cardinality(ink)))

RefTokens(s) ==
    LET n    == Cardinality(BreakPositions(s))
        keep == {k \in 1..(n + 1) : InkPositions(Segment(s, k)) # {}}
    IN  [j \in 1..Cardinality(keep) |-> Stripped(Segment(s, KthOf(keep, j)))]

AllWhitespace(s) == \A i \in 1..Len(s) : s[i] \in Whitespace

RevealKeyOnSurface(ev) ==
    ev.op = "keydown" /\ ev.target \in {"inline", "fullscreen"} /\ ev.arg \in RevealKeys

-----------------------------------------------------------------------------
(* Properties *)

\* C1: in every reachable state the Revealed Text is the join, by single line
\* breaks and in order, of the first currentLineIndex lines of the Line
\* Sequence (the empty string at position 0).
C1_RevealedTextIsJoin ==
    /\ PositionInBounds
    /\ displayedText = JoinLines(SubSeq(lines, 1, currentLineIndex))

\* a reveal key was just handled and two lines, hence one line break, are shown
C1_Witness ==
    /\ RevealKeyOnSurface(lastEvent)
    /\ currentLineIndex = 2
    /\ Len(lines) = 3
    /\ lines[1] # lines[2]

\* C2: in every reachable state 0 <= currentLineIndex <= length of the Line
\* Sequence.
C2_PositionInBounds ==
    /\ currentLineIndex >= 0
    /\ currentLineIndex <= Len(lines)

\* a reveal key was just handled with the sequence already exhausted
C2_Witness ==
    /\ RevealKeyOnSurface(lastEvent)
    /\ Len(lines) > 0
    /\ currentLineIndex = Len(lines)
    /\ advanceCount > Len(lines)

\* C3: in every reachable state the Current Line is Line Sequence[position]
\* when position < length and the empty string otherwise; every line is
\* non-empty, so the Current Line is non-empty exactly when the sequence is
\* not exhausted.
C3_CurrentLineIsLineAtPosition ==
    /\ PositionInBounds
    /\ currentLine = LineAtPosition(lines, currentLineIndex)
    /\ \A i \in 1..Len(lines) : lines[i] # << >>
    /\ (currentLine # << >>) <=> (currentLineIndex < Len(lines))

\* a reveal key moved the highlight to a later, different line
C3_Witness ==
    /\ RevealKeyOnSurface(lastEvent)
    /\ currentLineIndex > 0
    /\ currentLineIndex < Len(lines)
    /\ currentLine = lines[currentLineIndex + 1]
    /\ currentLine # lines[currentLineIndex]

\* C4: one Tab or Space press delivered to a reveal surface with
\* position < length appends Line Sequence[position] to the Revealed Text
\* (after a line break iff the Revealed Text was non-empty), adds exactly one
\* to the position and makes the Current Line the element at the new position
\* (absent at the end); also when both surfaces are mounted.
C4_RevealStep ==
    (/\ RevealKeyOnSurface(lastEvent')
     /\ currentLineIndex < Len(lines))
    => (/\ displayedText' =
               IF displayedText = << >>
               THEN lines[currentLineIndex + 1]
               ELSE displayedText \o <<NL>> \o lines[currentLineIndex + 1]
        /\ currentLineIndex' = currentLineIndex + 1
        /\ currentLine' = LineAtPosition(lines, currentLineIndex + 1)
        /\ lines' = lines)

C4_OneRevealPerKeyPress == [][C4_RevealStep]_vars

\* the first reveal key after a process, handled with both surfaces mounted and
\* two lines still to come
C4_Witness ==
    /\ RevealKeyOnSurface(lastEvent)
    /\ activeTab = "reader" /\ isFullscreen
    /\ Len(lines) = 3
    /\ advanceCount = 1
    /\ currentLineIndex = 1

\* C5: counting the reveal keys handled since a successful process (no Reset
\* in between), after k of them the position is min(k, total); from the
\* total-th on the Revealed Text is the join of the whole Line Sequence, the
\* position is total and the Current Line is absent; a reveal key handled in
\* that exhausted state changes none of position, Revealed Text, Current Line
\* and Line Sequence.
C5_AfterCountedAdvances ==
    advanceCount >= 0 =>
        /\ advanceCount < MaxAdvance
               => currentLineIndex = Min(advanceCount, Len(lines))
        /\ advanceCount >= Len(lines)
               => /\ currentLineIndex = Len(lines)
                  /\ displayedText = JoinLines(lines)
                  /\ currentLine = << >>

C5_ExhaustedStep ==
    (/\ RevealKeyOnSurface(lastEvent')
     /\ currentLineIndex >= Len(lines))
    => UNCHANGED reveal

C5_AdvanceToEndThenNoOp ==
    [](C5_AfterCountedAdvances) /\ [][C5_ExhaustedStep]_vars

\* one reveal key more than the three lines of the text has been handled
C5_Witness ==
    /\ RevealKeyOnSurface(lastEvent)
    /\ Len(lines) = 3
    /\ advanceCount = Len(lines) + 1
    /\ displayedText = JoinLines(lines)

\* C6: a Reset in any reachable state sets the position to 0, empties the
\* Revealed Text, makes the Current Line element 0 of the Line Sequence (absent
\* when the sequence is empty) and leaves the Line Sequence unchanged.
C6_ResetStep ==
    lastEvent'.op = "resetReader"
    => (/\ currentLineIndex' = 0
        /\ displayedText' = << >>
        /\ currentLine' = (IF Len(lines) > 0 THEN lines[1] ELSE << >>)
        /\ lines' = lines)

C6_ResetRestoresStart == [][C6_ResetStep]_vars

\* Reset was just pressed on a text of several different lines
C6_Witness ==
    /\ lastEvent.op = "resetReader"
    /\ Len(lines) = 3
    /\ currentLineIndex = 0
    /\ displayedText = << >>
    /\ currentLine = lines[1]

\* C7: a toggleFullscreen, an Escape key press (on a reveal surface or
\* elsewhere), and every step other than a process action that changes the
\* fullscreen flag, leaves position, Revealed Text, Current Line and Line
\* Sequence unchanged.
C7_FullscreenStep ==
    (\/ lastEvent'.op = "toggleFullscreen"
     \/ lastEvent'.op = "keydown" /\ lastEvent'.arg = "Escape"
     \/ isFullscreen' # isFullscreen /\ lastEvent'.op # "processText")
    => UNCHANGED reveal

C7_FullscreenKeepsProgress == [][C7_FullscreenStep]_vars

\* the overlay was just closed by its button in the middle of a reading
C7_Witness ==
    /\ lastEvent.op = "toggleFullscreen"
    /\ ~isFullscreen
    /\ currentLineIndex = 1
    /\ Len(lines) = 3

\* C8: a process action on an input made of whitespace only (or empty) changes
\* none of Line Sequence, position, Revealed Text, Current Line, active tab
\* and fullscreen flag.
C8_BlankProcessStep ==
    (/\ lastEvent'.op = "processText"
     /\ AllWhitespace(inputText))
    => UNCHANGED <<reveal, activeTab, isFullscreen>>

C8_BlankProcessIsNoOp == [][C8_BlankProcessStep]_vars

\* Process was just pressed on a non-empty whitespace-only text, before any
\* text had been processed
C8_Witness ==
    /\ lastEvent.op = "processText"
    /\ inputText # << >>
    /\ AllWhitespace(inputText)
    /\ activeTab = "input"
    /\ ~isFullscreen
    /\ lines = << >>

\* C9: for every raw input over Alphabet of at most MaxLen characters the
\* tokenizer's result is, in order and with repetitions kept, the trimmed
\* segments between line breaks that are non-empty after trimming; no element
\* is empty, whitespace-only or contains a line break, and the result is
\* non-empty when the input has a non-blank character.  After Process on a
\* non-blank input the Line Sequence is that result.
C9_TokenizerContract ==
    LET out == textLines(inputText)
    IN  /\ out = RefTokens(inputText)
        /\ \A i \in 1..Len(out) :
               /\ out[i] # << >>
               /\ ~AllWhitespace(out[i])
               /\ \A j \in 1..Len(out[i]) : out[i][j] # NL
        /\ ~AllWhitespace(inputText) => Len(out) >= 1
        /\ (lastEvent.op = "processText" /\ lastEvent.arg # "blank")
               => lines = RefTokens(inputText)

\* Process was pressed on " a\n\na": the segments are trimmed, the blank one
\* is dropped and the repeated line is kept
C9_Witness ==
    /\ lastEvent.op = "processText"
    /\ inputText = <<SP, "a", NL, NL, "a">>
    /\ lines = << <<"a">>, <<"a">> >>

\* C10: a process action on a non-blank input, from any reachable state, makes
\* the Line Sequence the tokenizer's result for the input, the position 0, the
\* Revealed Text empty and the Current Line element 0 of the new sequence.
C10_ProcessStep ==
    (/\ lastEvent'.op = "processText"
     /\ ~AllWhitespace(inputText))
    => (/\ lines' = RefTokens(inputText)
        /\ Len(lines') >= 1
        /\ currentLineIndex' = 0
        /\ displayedText' = << >>
        /\ currentLine' = lines'[1])

C10_ProcessReplacesState == [][C10_ProcessStep]_vars

\* Process was just pressed in the middle of reading a different text
C10_Witness ==
    /\ lastEvent = Event("processText", "none", "midread")
    /\ lines = << <<"a">>, <<"b">> >>
    /\ currentLineIndex = 0
    /\ displayedText = << >>
    /\ currentLine = <<"a">>

SuccessfulProcess(ev) == ev.op = "processText" /\ ev.arg # "blank"

\* C11: in every step the position changes in one of three ways only: by +1
\* in a Tab or Space press on a reveal surface (either key taking the position
\* to min(position + 1, length)), to 0 in a Reset, or to 0 in a successful
\* process action; every other event leaves it unchanged.
C11_PositionStep ==
    /\ RevealKeyOnSurface(lastEvent')
           => currentLineIndex' = Min(currentLineIndex + 1, Len(lines))
    /\ currentLineIndex' # currentLineIndex
           => \/ RevealKeyOnSurface(lastEvent')
                 /\ currentLineIndex' = currentLineIndex + 1
              \/ lastEvent'.op = "resetReader" /\ currentLineIndex' = 0
              \/ SuccessfulProcess(lastEvent') /\ currentLineIndex' = 0

C11_PositionChangesOnlyByRevealResetProcess == [][C11_PositionStep]_vars

\* a key that is neither Tab nor Space was just pressed on the inline panel in
\* the middle of a reading
C11_Witness ==
    /\ lastEvent = Event("keydown", "inline", "a")
    /\ Len(lines) = 3
    /\ currentLineIndex = 1

\* C12: the Line Sequence changes only in a successful process action; an
\* edit of the input text leaves it unchanged.
C12_LinesStep ==
    lines' # lines => SuccessfulProcess(lastEvent')

C12_LinesChangeOnlyByProcess == [][C12_LinesStep]_vars

\* the input text was just edited to a text with other lines, in the middle of
\* a reading, and the Line Sequence is still the old one
C12_Witness ==
    /\ lastEvent.op = "setInputText"
    /\ lines # << >>
    /\ ~AllWhitespace(inputText)
    /\ textLines(inputText) # lines
    /\ currentLineIndex > 0

\* a step of one of the three reveal operations: Initialize (a successful
\* process), Advance (Tab or Space on a reveal surface), Reset
RevealOperation(ev) ==
    \/ SuccessfulProcess(ev)
    \/ RevealKeyOnSurface(ev)
    \/ ev.op = "resetReader"

\* C13 as stated: none of Initialize, Advance and Reset changes any of the
\* four presentation flags (direction, markup, focus-dimming, fullscreen).
C13_AllFlagsStep ==
    RevealOperation(lastEvent') => UNCHANGED <<isRTL, isMarkdown, isFocusMode, isFullscreen>>

C13_RevealOpsKeepAllFourFlags == [][C13_AllFlagsStep]_vars

\* C13 as amended: none of Initialize, Advance and Reset changes direction,
\* markup or focus-dimming; Advance and Reset leave the fullscreen flag
\* unchanged as well, and a successful process action sets it on.
C13_FlagsStep ==
    RevealOperation(lastEvent')
    => (/\ UNCHANGED <<isRTL, isMarkdown, isFocusMode>>
        /\ IF SuccessfulProcess(lastEvent')
           THEN isFullscreen'
           ELSE isFullscreen' = isFullscreen)

C13_RevealOpsKeepFlagsButProcessOpensFullscreen == [][C13_FlagsStep]_vars

\* a text was just processed after all three switches had been flipped: they
\* kept their values and fullscreen is on
C13_Witness ==
    /\ SuccessfulProcess(lastEvent)
    /\ ~isRTL /\ ~isMarkdown /\ ~isFocusMode
    /\ isFullscreen

\* C14: in every reachable state the fullscreen flag is on only if the Line
\* Sequence is non-empty; a key press is taken by a reveal surface only if the
\* Line Sequence is non-empty, and in the reader tab with an empty sequence
\* the fallback is shown and no surface; once non-empty, the Line Sequence
\* never becomes empty again.
C14_NoRevealModeWhenEmpty ==
    /\ isFullscreen => Len(lines) > 0
    /\ (lastEvent.op = "keydown" /\ lastEvent.target \in {"inline", "fullscreen"})
           => Len(lines) > 0
    /\ \A target \in {"inline", "fullscreen"} :
           surfaceMounted(target) => Len(lines) > 0
    /\ (activeTab = "reader" /\ Len(lines) = 0)
           => fallbackMounted /\ ~inlineMounted /\ ~overlayMounted

C14_StaysNonEmptyStep == Len(lines) > 0 => Len(lines') > 0

C14_NeverRevealModeWithEmptySequence ==
    [](C14_NoRevealModeWhenEmpty) /\ [][C14_StaysNonEmptyStep]_vars

\* a key was just pressed in the reader tab with nothing processed yet: the
\* fallback is shown and fullscreen is off
C14_Witness ==
    /\ lastEvent.op = "keydown"
    /\ lastEvent.target = "document"
    /\ activeTab = "reader"
    /\ lines = << >>
    /\ fallbackMounted
    /\ ~isFullscreen

\* C15: an Escape key press, on a reveal surface (where both handleKeyDown
\* and the document listener handle it) or anywhere else, ends with the
\* fullscreen flag off, whether it was on or off before.
C15_EscapeStep ==
    (lastEvent'.op = "keydown" /\ lastEvent'.arg = "Escape") => ~isFullscreen'

C15_EscapeAlwaysClosesFullscreen == [][C15_EscapeStep]_vars

\* Escape was just pressed on the fullscreen overlay, which only exists with
\* the flag on, in the middle of a reading
C15_Witness ==
    /\ lastEvent = Event("keydown", "fullscreen", "Escape")
    /\ ~isFullscreen
    /\ currentLineIndex = 2
    /\ Len(lines) = 3

\* a reveal operation that succeeded: a successful process, a Reset, or a Tab
\* or Space press on a reveal surface that moved the position
SuccessfulRevealOperation ==
    \/ SuccessfulProcess(lastEvent')
    \/ lastEvent'.op = "resetReader"
    \/ RevealKeyOnSurface(lastEvent') /\ currentLineIndex < Len(lines)

\* C16: every successful Advance, Initialize or Reset that leaves a Current
\* Line present schedules one scroll-into-view timeout, also when the new
\* Current Line has the same text as the previous one.
C16_ScrollStep ==
    (SuccessfulRevealOperation /\ currentLine' # << >>)
    => scrollTimers' = scrollTimers + 1

C16_ScrollScheduledAfterEveryRevealOperation == [][C16_ScrollStep]_vars

\* C17: after every process action on a non-blank input, whatever the
\* fullscreen flag was before, the reader tab is the active tab and the
\* fullscreen flag is on.
C17_ProcessOpensStep ==
    (lastEvent'.op = "processText" /\ ~AllWhitespace(inputText))
    => (activeTab' = "reader" /\ isFullscreen')

C17_ProcessOpensReaderFullscreen == [][C17_ProcessOpensStep]_vars

\* a text was just processed while an earlier one stood at position 0
C17_Witness ==
    /\ lastEvent = Event("processText", "none", "again")
    /\ activeTab = "reader"
    /\ isFullscreen
    /\ Len(lines) = 3

Exhausted ==
    /\ Len(lines) > 0
    /\ currentLineIndex = Len(lines)
    /\ currentLine = << >>

\* the event handled last was a Reset or a successful process action
Intervened == lastEvent.op = "resetReader" \/ SuccessfulProcess(lastEvent)

\* C18: if reveal key presses on a reveal surface keep occurring, then from
\* every state with a non-empty Line Sequence the reader reaches
\* position = length with the Current Line absent, unless a Reset or a process
\* action intervenes; and a step out of that exhausted state that is neither
\* a Reset nor a successful process action leaves it exhausted, with the
\* reveal state unchanged.
C18_StaysExhaustedStep ==
    (Exhausted /\ ~Intervened') => (Exhausted' /\ UNCHANGED reveal)

C18_ReadingFinishes ==
    /\ ([]<><<revealPress>>_vars) => ((Len(lines) > 0) ~> (Exhausted \/ Intervened))
    /\ [][C18_StaysExhaustedStep]_vars

\* the third reveal key after a process just revealed the last of three lines
C18_Witness ==
    /\ RevealKeyOnSurface(lastEvent)
    /\ Exhausted
    /\ Len(lines) = 3
    /\ advanceCount = 3

====
